---------------------------- MODULE Spec2Model ----------------------------
(***************************************************************************)
(* The multipart-upload coordinator of src/lib/mpu.ts as a state machine.  *)
(*                                                                         *)
(* One invocation of multiPartUpload is followed from the call to the      *)
(* moment its promise settles.  The invocation is suspended at every       *)
(* network request and at every backoff sleep; each action below is one    *)
(* task of the event loop: the arrival of a response (or the end of a      *)
(* sleep) together with all the synchronous code that runs until the next  *)
(* suspension point.  The environment chooses the responses and may raise  *)
(* the AbortSignal between two tasks.                                      *)
(***************************************************************************)
EXTENDS Integers, Sequences, FiniteSets, TLC

\* ---------------------------------------------------------------- constants

DEFAULT_PART_SIZE == 10 * 1024 * 1024

DEFAULT_NUM_RETRIES == 3

S3_MIN_PART_SIZE == 5 * 1024 * 1024

S3_MAX_PARTS == 10000

TAR_BLOCK_SIZE == 512

\* ------------------------------------------------------------------- bounds

\* The largest number of parts a file of the model is split into.
MaxParts == 2

\* The largest numRetries a caller of the model passes explicitly.
MaxRetries == 1

\* The largest file, in bytes, iterateFileChunks is studied on.
MaxBytes == 9

\* The largest chunkSize, in bytes, iterateFileChunks and chunkStream are studied on.
MaxChunk == 4

\* The largest number of files tarSize and tarPack are studied on.
MaxFiles == 2

\* The largest number of segments, and of bytes of a segment, of chunkStream's input.
MaxSegments == 3

MaxSegmentLen == 3

\* The largest number of parts, and of characters of an eTag, of a completion body.
MaxXmlParts == 2

MaxTagLen == 2

\* The largest attempt number backoff is studied on.
MaxBackoffAttempt == 3

\* The number of equally spaced values of Math.random() of the model.
RandomGrain == 200

\* The largest number of items of a part-URL response whose items are studied.
MaxOpenItems == 2

\* The largest number of files chosen in the FileUpload component, and of
\* clicks on its Upload button.
MaxItems == 2

MaxClicks == 2

\* The numRetries of two invocations that run concurrently.
MaxConcRetries == 0

\* ------------------------------------------------------------------- inputs

\* file.size: the empty file, and files of 1..MaxParts parts of 5 MiB whose
\* last part has 3 bytes.
FileSizes == {0} \cup {(n - 1) * S3_MIN_PART_SIZE + 3 : n \in 1..MaxParts}

\* params.partSize: <<given, value>>; not given means DEFAULT_PART_SIZE.
PartSizeParams == {<<TRUE, 0>>, <<TRUE, 1>>, <<FALSE, 0>>}

\* params.numRetries: <<given, value>>; not given means DEFAULT_NUM_RETRIES.
NumRetriesParams == {<<TRUE, n>> : n \in 0..MaxRetries} \cup {<<FALSE, 0>>}

\* MultipartUploadParams, with the file.
Params ==
    [ fileSize      : FileSizes,
      partSize      : PartSizeParams,
      numRetries    : NumRetriesParams,
      hasSignal     : BOOLEAN,
      hasOnProgress : BOOLEAN ]

\* The etag header the endpoint of a part URL answers with: the entity tag of
\* the part stored under that URL.
ETagOf(url) == "etag-" \o ToString(url)

\* The HTTP statuses a part endpoint answers with.
PutStatuses == {200, 300, 301, 404, 408, 429, 503}

\* ------------------------------------------------------------ pure functions

Max(a, b) == IF a >= b THEN a ELSE b

Min(a, b) == IF a <= b THEN a ELSE b

\* Math.ceil(a / b) for a >= 0, b > 0.
Ceil(a, b) == (a + b - 1) \div b

\* A JavaScript number that is an integer, and the three that are not finite.
Finite(v) == [ finite |-> TRUE, v |-> v ]

NaN == [ finite |-> FALSE, v |-> 0 ]

PosInfinity == [ finite |-> FALSE, v |-> 1 ]

NegInfinity == [ finite |-> FALSE, v |-> -1 ]

\* !Number.isFinite(x) || x <= 0
invalidSize(x) == ~x.finite \/ x.v <= 0

\* normalizePartSize throws a RangeError for these desired sizes.
normalizePartSizeThrows(desired) == invalidSize(Finite(desired))

\* A file.size given by the digits q, r of q * S3_MAX_PARTS + r, 0 <= r < S3_MAX_PARTS,
\* so that the sizes whose part count reaches S3_MAX_PARTS can be written.
FileSize(q, r) == [ q |-> q, r |-> r ]

digitsOf(n) == FileSize(n \div S3_MAX_PARTS, n % S3_MAX_PARTS)

\* Math.ceil(file.size / S3_MAX_PARTS) || 0
minByCount(size) == size.q + (IF size.r > 0 THEN 1 ELSE 0)

\* Mutant: the part size is not raised to keep the part count within S3_MAX_PARTS.
normalizePartSizeOf_noCount(size, desired) == Max(desired, S3_MIN_PART_SIZE)

\* Mutant: the part size is not raised to S3_MIN_PART_SIZE.
normalizePartSizeOf_noMinimum(size, desired) == Max(desired, minByCount(size))

\* normalizePartSize's return value, for a valid desired size.
normalizePartSizeOf(size, desired) ==
    Max(desired, Max(S3_MIN_PART_SIZE, minByCount(size)))

normalizePartSize(fileSize, desired) == normalizePartSizeOf(digitsOf(fileSize), desired)

\* getNumParts for a file.size given by its digits: with q = a * m + b and
\* b * 100 = c * m + d, file.size = (a * 10000 + c * 100) * m + d * 100 + r.
getNumPartsOf(size, m) ==
    IF size.q = 0 /\ size.r = 0 THEN 0
    ELSE LET a == size.q \div m
             b == size.q % m
             c == (b * 100) \div m
             d == (b * 100) % m
         IN  a * S3_MAX_PARTS + c * 100 + Ceil(d * 100 + size.r, m)

\* Mutant: the part count is rounded down.
getNumParts_floor(fileSize, size) == IF fileSize = 0 THEN 0 ELSE fileSize \div size

getNumParts(fileSize, size) == IF fileSize = 0 THEN 0 ELSE Ceil(fileSize, size)

\* Mutant: end is not clamped to file.size.
fileChunk_noClamp(fileSize, chunkSize, index) ==
    LET start == index * chunkSize
        end   == start + chunkSize
    IN  [ index |-> index, start |-> start, end |-> end,
          isLast |-> (end = fileSize), size |-> end - start ]

\* The element the loop body of iterateFileChunks yields for index; size is
\* the size of part, the slice [start, end) of the file.
fileChunk(fileSize, chunkSize, index) ==
    LET start == index * chunkSize
        end   == Min(start + chunkSize, fileSize)
    IN  [ index |-> index, start |-> start, end |-> end,
          isLast |-> (end = fileSize), size |-> end - start ]

\* The chunks iterateFileChunks yields, in order.
iterateFileChunks(fileSize, chunkSize) ==
    IF fileSize = 0 THEN << >>
    ELSE [ i \in 1..Ceil(fileSize, chunkSize) |-> fileChunk(fileSize, chunkSize, i - 1) ]

\* Mutant: every status from 400 on is retried.
shouldRetry_from400(status) == status >= 400

shouldRetry(status) == status >= 500 \/ status = 429 \/ status = 408

\* ------------------------------------------------------------------- errors

Error(kind, part, att, status, cause) ==
    [ kind |-> kind, part |-> part, attempt |-> att, status |-> status, cause |-> cause ]

NoError == Error("none", 0, 0, 0, "none")

SimpleError(kind) == Error(kind, 0, 0, 0, "none")

\* The arguments of a call of onProgress.
ProgressCall(sent, total, part, att) ==
    [ bytesSent |-> sent, totalBytes |-> total, partNumber |-> part, attempt |-> att ]

NoProgress == ProgressCall(0, 0, 0, 0)

\* -------------------------------------------------------------------- state

VARIABLES
    params,     \* the file and the MultipartUploadParams of the invocation
    pc,         \* where the invocation is suspended
    aborted,    \* params.signal.aborted
    uploadId,   \* multiPartUpload's uploadId ("" before createMultipartUpload returned)
    partSize,   \* sendMultipartUpload's partSize
    numParts,   \* sendMultipartUpload's numParts
    urls,       \* doMultipartUpload's urls
    uploaded,   \* doMultipartUpload's uploaded
    index,      \* the index of the chunk of the running loop iteration
    attempt,    \* doMultipartUpload's attempt
    perLoaded,  \* doMultipartUpload's perLoaded
    bytesSent,  \* doMultipartUpload's bytesSent
    err,        \* the err caught by multiPartUpload
    outcome,    \* how the promise of multiPartUpload settled
    thrown,     \* the error it rejected with
    requests,   \* history: the number of requests issued, by kind
    hist,       \* history: the outcomes of the PUT attempts of the current part
    abortResult,\* history: how the abort request ended
    lastProgress,\* history: the arguments of the last call of onProgress
    cancelledAt,\* history: where the invocation was when the signal was raised
    answered,   \* history: the number of requests answered, by kind
    gen         \* the running generator or function call of a function studied alone

vars == << params, pc, aborted, uploadId, partSize, numParts, urls, uploaded, index,
           attempt, perLoaded, bytesSent, err, outcome, thrown, requests, hist,
           abortResult, lastProgress, cancelledAt, answered, gen >>

\* The invocation's state as a record, so that the synchronous code between
\* two suspension points composes as functions on it.
Cur ==
    [ pc |-> pc, uploadId |-> uploadId, partSize |-> partSize, numParts |-> numParts,
      urls |-> urls, uploaded |-> uploaded, index |-> index, attempt |-> attempt,
      perLoaded |-> perLoaded, bytesSent |-> bytesSent, err |-> err,
      outcome |-> outcome, thrown |-> thrown, requests |-> requests, hist |-> hist,
      abortResult |-> abortResult, lastProgress |-> lastProgress, answered |-> answered ]

Become(s) ==
    /\ pc' = s.pc
    /\ uploadId' = s.uploadId
    /\ partSize' = s.partSize
    /\ numParts' = s.numParts
    /\ urls' = s.urls
    /\ uploaded' = s.uploaded
    /\ index' = s.index
    /\ attempt' = s.attempt
    /\ perLoaded' = s.perLoaded
    /\ bytesSent' = s.bytesSent
    /\ err' = s.err
    /\ outcome' = s.outcome
    /\ thrown' = s.thrown
    /\ requests' = s.requests
    /\ hist' = s.hist
    /\ abortResult' = s.abortResult
    /\ lastProgress' = s.lastProgress
    /\ answered' = s.answered

signalAborted == params.hasSignal /\ aborted

numRetries ==
    IF params.numRetries[1] THEN params.numRetries[2] ELSE DEFAULT_NUM_RETRIES

\* A request of the given kind is handed to axios.
Issue(s, kind) == [s EXCEPT !.requests[kind] = @ + 1]

\* The request of the given kind that is in flight is answered.
Answer(s, kind) == [s EXCEPT !.answered[kind] = @ + 1]

\* The promise of multiPartUpload settles.
Resolve(s, value) == [s EXCEPT !.pc = "done", !.outcome = value]

Reject(s, e) == [s EXCEPT !.pc = "done", !.outcome = "rejected", !.thrown = e]

\* No function is studied alone.
NoGen == [ fn |-> "none" ]

\* The invocation before multiPartUpload is called.
NotCalled ==
    /\ pc = "idle"
    /\ aborted = FALSE
    /\ uploadId = ""
    /\ partSize = 0
    /\ numParts = 0
    /\ urls = << >>
    /\ uploaded = << >>
    /\ index = 0
    /\ attempt = 0
    /\ perLoaded = 0
    /\ bytesSent = 0
    /\ err = NoError
    /\ outcome = "pending"
    /\ thrown = NoError
    /\ requests = [ create |-> 0, open |-> 0, put |-> 0, complete |-> 0, abort |-> 0 ]
    /\ hist = << >>
    /\ abortResult = "none"
    /\ lastProgress = NoProgress
    /\ cancelledAt = "never"
    /\ answered = [ create |-> 0, open |-> 0, put |-> 0, complete |-> 0, abort |-> 0 ]

Init ==
    /\ params \in Params
    /\ NotCalled
    /\ gen = NoGen

\* ------------------------------------------------- environment's responses

\* What a request can be answered with: an HTTP response (status, and the
\* value of the etag header, "" when the header is missing), no response at
\* all (a network failure), or axios's CanceledError when the signal the
\* request is bound to is raised.
Response(kind, status, etag) == [ kind |-> kind, status |-> status, etag |-> etag ]

PutResponses(url) ==
    IF signalAborted
    THEN { Response("canceled", 0, "") }
    ELSE { Response("http", st, et) : st \in PutStatuses, et \in {ETagOf(url), ""} }
         \cup { Response("network", 0, "") }

\* A PartUrl; the url is identified by the part it is signed for.
PartUrl(n) == [ partNumber |-> n, url |-> n ]

\* A JSON value of type number: v when integer, a number strictly between v
\* and v + 1 otherwise.
JsNumber(v, integer) == [ type |-> "number", v |-> v, integer |-> integer, text |-> << >> ]

\* A JSON value of type string, given by its characters; where the string is
\* a url, v identifies the part it is signed for.
JsString(text, v) == [ type |-> "string", v |-> v, integer |-> FALSE, text |-> text ]

\* The arrays the backend may answer the part-URL request with, for numParts = n:
\* every item has a number as partNumber, one of 0..n+1 (0: not a positive
\* integer), and a string as url.
OpenArrays(n) ==
    UNION { [ 1..len -> { [ partNumber |-> JsNumber(k, TRUE), url |-> JsString(<< >>, k) ] :
                            k \in 0..(n + 1) } ] : len \in 0..(n + 1) }

\* The values the transport reports as e.loaded while a part of the given size is sent.
LoadedValues(size) == {0, size \div 2, size}

\* ------------------------------------------------------------ multiPartUpload

\* Mutant: the catch clause rethrows without the abort request.
multiPartUploadCatch_noAbort(s, e) == Reject([s EXCEPT !.err = e], e)

\* Mutant: the abort request is bound to the signal, so that it is rejected
\* with a CanceledError before it is sent when the signal is raised.
multiPartUploadCatch_boundToSignal(s, e) ==
    IF signalAborted
    THEN Reject([s EXCEPT !.err = e, !.abortResult = "failed"], SimpleError("CanceledError"))
    ELSE Issue([s EXCEPT !.pc = "aborting", !.err = e], "abort")

\* multiPartUpload's catch clause: the abort request is issued, err is kept.
multiPartUploadCatch(s, e) == Issue([s EXCEPT !.pc = "aborting", !.err = e], "abort")

\* completeMultipartUpload up to its request.
completeMultipartUpload(s) ==
    IF Len(s.uploaded) = 0
    THEN multiPartUploadCatch(s, SimpleError("NoPartsProvided"))
    ELSE Issue([s EXCEPT !.pc = "completing"], "complete")

\* Mutant: the completion request is issued whatever the state of the signal.
sendMultipartUploadFinish_ignoreSignal(s) == completeMultipartUpload(s)

\* sendMultipartUpload after doMultipartUpload returned.
sendMultipartUploadFinish(s) ==
    IF ~signalAborted
    THEN completeMultipartUpload(s)
    ELSE Resolve(s, "undefined")

\* Mutant: perLoaded is reset at the start of every attempt.
startAttempt_resetPerLoaded(s) ==
    Issue([s EXCEPT !.pc = "putting", !.attempt = @ + 1, !.perLoaded = 0], "put")

\* The body of the attempt loop from `attempt += 1` to the PUT request.
startAttempt(s) == Issue([s EXCEPT !.pc = "putting", !.attempt = @ + 1], "put")

\* The top of the attempt loop: true when the loop is left by its break.
attemptLoopBreaks == signalAborted

\* The for loop of doMultipartUpload from chunk i (0-based) on, up to the next
\* suspension point.
RECURSIVE forEachChunk(_, _)
forEachChunk(s, i) ==
    IF i >= Len(iterateFileChunks(params.fileSize, s.partSize))
    THEN sendMultipartUploadFinish(s)
    ELSE IF i + 1 > Len(s.urls)
    THEN multiPartUploadCatch(s, Error("TypeError", i + 1, 0, 0, "urls[index] is undefined"))
    ELSE LET t == [s EXCEPT !.index = i, !.attempt = 0, !.perLoaded = 0, !.hist = << >>]
         IN  IF attemptLoopBreaks
             THEN forEachChunk(t, i + 1)
             ELSE startAttempt(t)

\* Mutant: the sanity check of doMultipartUpload is left out.
firstOutOfOrder_none(u) == 0

\* The sanity check of doMultipartUpload: the first position of urls whose
\* partNumber is not the position, 0 when there is none.

firstOutOfOrder(u) ==
    IF \E i \in 1..Len(u) : u[i].partNumber # i
    THEN CHOOSE i \in 1..Len(u) :
            /\ u[i].partNumber # i
            /\ \A j \in 1..(i - 1) : u[j].partNumber = j
    ELSE 0

doMultipartUpload(s) ==
    LET bad == firstOutOfOrder(s.urls)
    IN  IF bad # 0
        THEN multiPartUploadCatch(s,
                 Error("UrlsOutOfOrder", s.urls[bad].partNumber, 0, 0, "expected position"))
        ELSE forEachChunk([s EXCEPT !.uploaded = << >>, !.bytesSent = 0], 0)

\* openMultipartUpload up to its request.
openMultipartUpload(s) ==
    IF signalAborted
    THEN multiPartUploadCatch(s, SimpleError("CanceledError"))
    ELSE Issue([s EXCEPT !.pc = "opening"], "open")

\* Number(text), for a text of decimal digits and dots: the empty text is 0,
\* digits are their decimal value, digits around one dot are a number that is
\* an integer when every digit after the dot is 0, and anything else is NaN
\* (a number that is not an integer).
Number(text) ==
    LET digit == [ c \in {"0", "1", "2", "3", "4", "5", "6", "7", "8", "9"} |->
                     CHOOSE d \in 0..9 : ToString(d) = c ]
        isDigits(w) == \A i \in 1..Len(w) : w[i] \in DOMAIN digit
        value[k \in 0..Len(text)] ==
            IF k = 0 \/ text[k] \notin DOMAIN digit THEN 0
            ELSE 10 * value[k - 1] + digit[text[k]]
        dots == { i \in 1..Len(text) : text[i] = "." }
        dot == CHOOSE i \in dots : TRUE
    IN  IF isDigits(text) THEN JsNumber(value[Len(text)], TRUE)
        ELSE IF Cardinality(dots) = 1 /\ Len(text) >= 2
                /\ isDigits(SubSeq(text, 1, dot - 1))
                /\ isDigits(SubSeq(text, dot + 1, Len(text)))
        THEN JsNumber(value[dot - 1],
                      \A i \in (dot + 1)..Len(text) : text[i] = "0")
        ELSE JsNumber(0, FALSE)

\* Mutant: the partNumber of an item is used as it arrived.
partNumberOf_asArrived(item) == item.partNumber

\* typeof item?.partNumber === 'string' ? Number(item.partNumber) : item?.partNumber
partNumberOf(item) ==
    IF item.partNumber.type = "string" THEN Number(item.partNumber.text)
    ELSE item.partNumber

\* The item validation of openMultipartUpload.
invalidItem(item) ==
    \/ ~(partNumberOf(item).type = "number" /\ partNumberOf(item).integer)
    \/ partNumberOf(item).v <= 0
    \/ item.url.type # "string"

\* items.sort((a, b) => a.partNumber - b.partNumber)
sortByPartNumber(items) == SortSeq(items, LAMBDA a, b : a.partNumber < b.partNumber)

\* Mutant: the part count is not checked.
splitMultipartUpload_noCountCheck(s) ==
    LET desired == IF params.partSize[1] THEN params.partSize[2] ELSE DEFAULT_PART_SIZE
        size    == normalizePartSize(params.fileSize, desired)
        n       == getNumParts(params.fileSize, size)
    IN  IF normalizePartSizeThrows(desired)
        THEN [ ok |-> FALSE, error |-> SimpleError("RangeErrorChunkSize"), partSize |-> 0, numParts |-> 0 ]
        ELSE [ ok |-> TRUE, error |-> NoError, partSize |-> size, numParts |-> n ]

\* splitMultipartUpload: the part size and the part count, or the RangeError thrown.
splitMultipartUpload(s) ==
    LET desired == IF params.partSize[1] THEN params.partSize[2] ELSE DEFAULT_PART_SIZE
        size    == normalizePartSize(params.fileSize, desired)
        n       == getNumParts(params.fileSize, size)
    IN  IF normalizePartSizeThrows(desired)
        THEN [ ok |-> FALSE, error |-> SimpleError("RangeErrorChunkSize"), partSize |-> 0, numParts |-> 0 ]
        ELSE IF n <= 0
        THEN [ ok |-> FALSE, error |-> SimpleError("RangeErrorNumParts"), partSize |-> 0, numParts |-> 0 ]
        ELSE [ ok |-> TRUE, error |-> NoError, partSize |-> size, numParts |-> n ]

\* sendMultipartUpload up to its first suspension point.
sendMultipartUpload(s) ==
    LET split == splitMultipartUpload(s)
    IN  IF ~split.ok
        THEN multiPartUploadCatch(s, split.error)
        ELSE openMultipartUpload([s EXCEPT !.partSize = split.partSize, !.numParts = split.numParts])

\* Mutant: createMultipartUpload is called inside the try block.
createMultipartUploadFails_insideTry(s, e) == multiPartUploadCatch(s, e)

\* createMultipartUpload failed: multiPartUpload rejects, outside its try block.
createMultipartUploadFails(s, e) == Reject(s, e)

\* ------------------------------------------------------------ part transfer

\* Mutant: the status test has no upper bound.
isSuccessStatus_noUpperBound(status) == status >= 200

\* The status test that precedes the etag test.
isSuccessStatus(status) == status >= 200 /\ status <= 300

\* The response test of the try block: may another attempt follow?
retryAfterResponse(att, status) == att < numRetries /\ shouldRetry(status)

\* Mutant: a failure without response is retried once more.
retryAfterNetworkError_oneMore(att) == att <= numRetries + 1

\* The test of the catch block: may another attempt follow a failure without response?
retryAfterNetworkError(att) == att <= numRetries

\* The catch block rethrows: the part has failed.
partFails(s, status, cause) ==
    multiPartUploadCatch(s,
        Error("PartUploadFailed", s.urls[s.index + 1].partNumber, s.attempt, status, cause))

\* await sleep(backoff(attempt)); continue
sleepThenContinue(s) == [s EXCEPT !.pc = "sleeping"]

\* How the history classifies a response, by the protocol's own terms: a 2xx
\* status with or without etag, a retryable status (408, 429, 5xx), another status.
classOf(r) ==
    CASE r.kind = "network"  -> "network"
      [] r.kind = "canceled" -> "canceled"
      [] r.status \in 200..299 /\ r.etag # "" -> "ok"
      [] r.status \in 200..299 -> "noetag"
      [] r.status \in {408, 429} \/ r.status >= 500 -> "retryable"
      [] OTHER -> "other"

\* Mutant: a response without etag is retried like a retryable status.
afterPut_retryMissingEtag(s0, r) ==
    LET s == [s0 EXCEPT !.hist = Append(@, classOf(r))]
    IN  IF r.kind = "http"
        THEN IF isSuccessStatus(r.status)
             THEN IF r.etag # ""
                  THEN forEachChunk(
                         [s EXCEPT !.uploaded = Append(@,
                             [ partNumber |-> s.urls[s.index + 1].partNumber, eTag |-> r.etag ])],
                         s.index + 1)
                  ELSE IF s.attempt < numRetries
                       THEN sleepThenContinue(s)
                       ELSE partFails(s, r.status, "missing etag")
             ELSE IF retryAfterResponse(s.attempt, r.status)
                  THEN sleepThenContinue(s)
                  ELSE partFails(s, r.status, "status")
        ELSE IF retryAfterNetworkError(s.attempt)
             THEN sleepThenContinue(s)
             ELSE partFails(s, 0, r.kind)

\* The code that follows `await axios.put(...)`, for response r.
afterPut(s0, r) ==
    LET s == [s0 EXCEPT !.hist = Append(@, classOf(r))]
    IN  IF r.kind = "http"
        THEN IF isSuccessStatus(r.status)
             THEN IF r.etag # ""
                  THEN forEachChunk(
                         [s EXCEPT !.uploaded = Append(@,
                             [ partNumber |-> s.urls[s.index + 1].partNumber, eTag |-> r.etag ])],
                         s.index + 1)
                  ELSE partFails(s, r.status, "missing etag")
             ELSE IF retryAfterResponse(s.attempt, r.status)
                  THEN sleepThenContinue(s)
                  ELSE partFails(s, r.status, "status")
        ELSE IF retryAfterNetworkError(s.attempt)
             THEN sleepThenContinue(s)
             ELSE partFails(s, 0, r.kind)

\* `continue` after the sleep: the top of the attempt loop.
afterSleep(s) ==
    IF attemptLoopBreaks
    THEN forEachChunk(s, s.index + 1)
    ELSE startAttempt(s)

\* The onUploadProgress callback, for e.loaded = loaded.
onUploadProgress(s, loaded) ==
    LET delta == loaded - s.perLoaded
    IN  IF ~params.hasOnProgress \/ delta <= 0
        THEN s
        ELSE [s EXCEPT !.perLoaded = @ + delta,
                       !.bytesSent = @ + delta,
                       !.lastProgress =
                           ProgressCall(s.bytesSent + delta, params.fileSize,
                                        s.urls[s.index + 1].partNumber, s.attempt)]

\* ------------------------------------------------------------------ actions

\* Each Results operator is what one task of the event loop can make of an
\* invocation s: the arrival of a response, or the end of a sleep, with the
\* synchronous code that follows it up to the next suspension point.

\* multiPartUpload is called: createMultipartUpload sends its request.
CallResults(s) ==
    IF s.pc = "idle" THEN { Issue([s EXCEPT !.pc = "creating"], "create") } ELSE { }

\* The answer to the initiate request; id is the UploadId of a successful answer.
CreateResults(s, id) ==
    IF s.pc # "creating" THEN { }
    ELSE LET a == Answer(s, "create")
         IN  { CASE r = "ok"         -> [a EXCEPT !.uploadId = id, !.pc = "created"]
                 [] r = "canceled"   -> createMultipartUploadFails(a, SimpleError("CanceledError"))
                 [] r = "error"      -> createMultipartUploadFails(a, SimpleError("CreateRequestError"))
                 [] r = "noUploadId" -> createMultipartUploadFails(a, SimpleError("UnexpectedXML"))
               : r \in (IF signalAborted THEN {"canceled"} ELSE {"ok", "error", "noUploadId"}) }

\* createMultipartUpload returned the uploadId: multiPartUpload resumes after
\* its await, in a later job of the event loop, and enters the try block.
ResumeResults(s) == IF s.pc = "created" THEN { sendMultipartUpload(s) } ELSE { }

\* The part-URL request is rejected: by the signal, by the transport or the
\* status, or because the body is not an array.
OpenFailures(s) ==
    IF s.pc # "opening" THEN { }
    ELSE IF signalAborted
    THEN { multiPartUploadCatch(Answer(s, "open"), SimpleError("CanceledError")) }
    ELSE { multiPartUploadCatch(Answer(s, "open"), SimpleError(kind)) :
             kind \in {"OpenRequestError", "NotAnArray"} }

\* The part-URL request is answered with the array data: the items are
\* normalized and validated, sorted, and handed to doMultipartUpload.
OpenResultOf(s, data) ==
    IF \E i \in 1..Len(data) : invalidItem(data[i])
    THEN multiPartUploadCatch(Answer(s, "open"), SimpleError("InvalidItem"))
    ELSE LET items == [ i \in 1..Len(data) |->
                          [ partNumber |-> partNumberOf(data[i]).v, url |-> data[i].url.v ] ]
         IN  doMultipartUpload([Answer(s, "open") EXCEPT !.urls = sortByPartNumber(items)])

\* The part-URL request is answered with an array.
OpenResults(s) ==
    IF s.pc # "opening" \/ signalAborted THEN { }
    ELSE { OpenResultOf(s, data) : data \in OpenArrays(s.numParts) }

\* The transport reports upload progress of the PUT in flight.
ProgressResults(s) ==
    IF s.pc # "putting" \/ signalAborted THEN { }
    ELSE { onUploadProgress(s, loaded) :
             loaded \in LoadedValues(
                 iterateFileChunks(params.fileSize, s.partSize)[s.index + 1].size) }

\* The answer to the PUT in flight.
PutResults(s) ==
    IF s.pc # "putting" THEN { }
    ELSE { afterPut(Answer(s, "put"), r) : r \in PutResponses(s.urls[s.index + 1].url) }

\* The backoff sleep ends.
WakeResults(s) == IF s.pc = "sleeping" THEN { afterSleep(s) } ELSE { }

\* Mutant: the session is cleaned up after a successful completion too, as
\* with a finally clause.
CompleteResults_finally(s) ==
    IF s.pc # "completing" THEN { }
    ELSE { multiPartUploadCatch([Answer(s, "complete") EXCEPT !.outcome = "result"], NoError) }

\* The answer to the completion request.
CompleteResults(s) ==
    IF s.pc # "completing" THEN { }
    ELSE { IF r = "ok" THEN Resolve(Answer(s, "complete"), "result")
           ELSE multiPartUploadCatch(Answer(s, "complete"), SimpleError(r))
           : r \in (IF signalAborted THEN {"CanceledError"}
                    ELSE {"ok", "CompleteRequestError", "CompleteMalformedBody"}) }

\* await abortMultipartUpload(...) returned: throw err.
abortSucceeded(s) == Reject([s EXCEPT !.abortResult = "ok"], s.err)

\* await abortMultipartUpload(...) threw: the rejection leaves the catch clause.
abortFailed(s) == Reject([s EXCEPT !.abortResult = "failed"], SimpleError("AbortRequestError"))

\* The answer to the abort request, which is not bound to the signal.
AbortResults(s) ==
    IF s.pc # "aborting" THEN { }
    ELSE { abortSucceeded(Answer(s, "abort")), abortFailed(Answer(s, "abort")) }

Call ==
    /\ \E t \in CallResults(Cur) : Become(t)
    /\ UNCHANGED << params, aborted, cancelledAt, gen >>

CreateResponse ==
    /\ \E t \in CreateResults(Cur, "upload-1") : Become(t)
    /\ UNCHANGED << params, aborted, cancelledAt, gen >>

Resume ==
    /\ \E t \in ResumeResults(Cur) : Become(t)
    /\ UNCHANGED << params, aborted, cancelledAt, gen >>

OpenResponse ==
    /\ \/ \E t \in OpenFailures(Cur) : Become(t)
       \/ \E t \in OpenResults(Cur) : Become(t)
    /\ UNCHANGED << params, aborted, cancelledAt, gen >>

Progress ==
    /\ \E t \in ProgressResults(Cur) : Become(t)
    /\ UNCHANGED << params, aborted, cancelledAt, gen >>

PutResponse ==
    /\ \E t \in PutResults(Cur) : Become(t)
    /\ UNCHANGED << params, aborted, cancelledAt, gen >>

Wake ==
    /\ \E t \in WakeResults(Cur) : Become(t)
    /\ UNCHANGED << params, aborted, cancelledAt, gen >>

CompleteResponse ==
    /\ \E t \in CompleteResults(Cur) : Become(t)
    /\ UNCHANGED << params, aborted, cancelledAt, gen >>

AbortResponse ==
    /\ \E t \in AbortResults(Cur) : Become(t)
    /\ UNCHANGED << params, aborted, cancelledAt, gen >>

\* The caller raises the AbortSignal.
Cancel ==
    /\ params.hasSignal
    /\ ~aborted
    /\ pc # "done"
    /\ aborted' = TRUE
    /\ cancelledAt' = pc
    /\ UNCHANGED << params, pc, uploadId, partSize, numParts, urls, uploaded, index, attempt,
                    perLoaded, bytesSent, err, outcome, thrown, requests, hist,
                    abortResult, lastProgress, answered, gen >>

Next ==
    \/ Call
    \/ CreateResponse
    \/ Resume
    \/ OpenResponse
    \/ Progress
    \/ PutResponse
    \/ Wake
    \/ CompleteResponse
    \/ AbortResponse
    \/ Cancel

Spec == Init /\ [][Next]_vars

\* ------------------------------------------------- functions studied alone

\* The variables of the invocation: all but gen.
invocation ==
    << params, pc, aborted, uploadId, partSize, numParts, urls, uploaded, index,
       attempt, perLoaded, bytesSent, err, outcome, thrown, requests, hist,
       abortResult, lastProgress, cancelledAt, answered >>

\* The params of a caller that passes the empty file and nothing else.
NoParams ==
    [ fileSize |-> 0, partSize |-> <<FALSE, 0>>, numRetries |-> <<FALSE, 0>>,
      hasSignal |-> FALSE, hasOnProgress |-> FALSE ]

\* ----------------------------------------------------- iterateFileChunks

\* iterateFileChunks(file, chunkSize) returned its generator.
iterateFileChunksCall(fileSize, chunkSize) ==
    [ fn |-> "iterateFileChunks", fileSize |-> fileSize, chunkSize |-> chunkSize,
      index |-> 0, yielded |-> << >>, at |-> "start", threw |-> "none" ]

\* One call of next() on the generator: up to the next yield, the return or the throw.
iterateFileChunksNext(g) ==
    IF g.at = "start" /\ invalidSize(Finite(g.chunkSize))
    THEN [g EXCEPT !.at = "done", !.threw = "RangeError"]
    ELSE IF g.fileSize = 0
    THEN [g EXCEPT !.at = "done"]
    ELSE LET total == Ceil(g.fileSize, g.chunkSize)
             i     == IF g.at = "start" THEN 0 ELSE g.index + 1
         IN  IF i < total
             THEN [g EXCEPT !.at = "yielded", !.index = i,
                            !.yielded = Append(@, fileChunk(g.fileSize, g.chunkSize, i))]
             ELSE [g EXCEPT !.at = "done", !.index = i]

IterateInit ==
    /\ params = NoParams
    /\ NotCalled
    /\ gen \in { iterateFileChunksCall(n, c) : n \in 0..MaxBytes, c \in 0..MaxChunk }

\* The consumer's for...of loop asks for the next chunk.
IterateNext ==
    /\ gen.fn = "iterateFileChunks"
    /\ gen.at # "done"
    /\ gen' = iterateFileChunksNext(gen)
    /\ UNCHANGED invocation

IterateSpec == IterateInit /\ [][IterateNext]_vars

\* ----------------------------------------------------- normalizePartSize

normalizePartSizeCall(size, desired) ==
    [ fn |-> "normalizePartSize", size |-> size, desired |-> desired,
      at |-> "called", value |-> 0, threw |-> "none", split |-> "none", numParts |-> 0 ]

\* The body of normalizePartSize.
normalizePartSizeBody(g) ==
    IF invalidSize(g.desired)
    THEN [g EXCEPT !.at = "threw", !.threw = "RangeError"]
    ELSE [g EXCEPT !.at = "returned", !.value = normalizePartSizeOf(g.size, g.desired.v)]

\* file.size: the digits q and r of the sizes around those where each of the
\* three arguments of Math.max is the largest.
NormalizeQuotients ==
    { 0, 1, S3_MIN_PART_SIZE - 1, S3_MIN_PART_SIZE, S3_MIN_PART_SIZE + 1, DEFAULT_PART_SIZE + 1 }

NormalizeRemainders == { 0, 1, S3_MAX_PARTS - 1 }

\* desired
DesiredSizes ==
    { Finite(v) : v \in { -1, 0, 1, S3_MIN_PART_SIZE - 1, S3_MIN_PART_SIZE,
                          S3_MIN_PART_SIZE + 1, DEFAULT_PART_SIZE } }
    \cup { NaN, PosInfinity, NegInfinity }

NormalizeInit ==
    /\ params = NoParams
    /\ NotCalled
    /\ gen \in { normalizePartSizeCall(FileSize(q, r), d) :
                    q \in NormalizeQuotients, r \in NormalizeRemainders, d \in DesiredSizes }

\* splitMultipartUpload after normalizePartSize returned: getNumParts, and the
\* RangeError for a part count that is not a positive integer.
splitMultipartUploadRest(g) ==
    LET n == getNumPartsOf(g.size, g.value)
    IN  IF n <= 0 THEN [g EXCEPT !.split = "threw", !.numParts = n]
        ELSE [g EXCEPT !.split = "returned", !.numParts = n]

NormalizeNext ==
    /\ gen.fn = "normalizePartSize"
    /\ \/ /\ gen.at = "called"
          /\ gen' = normalizePartSizeBody(gen)
       \/ /\ gen.at = "returned"
          /\ gen.split = "none"
          /\ gen' = splitMultipartUploadRest(gen)
    /\ UNCHANGED invocation

NormalizeSpec == NormalizeInit /\ [][NormalizeNext]_vars

\* ------------------------------------------------------ tarSize, tarPack

\* tarSize's loop over the files, each given by its size.
RECURSIVE tarSizeOfFiles(_)
tarSizeOfFiles(files) ==
    IF files = << >> THEN 0
    ELSE TAR_BLOCK_SIZE + Ceil(Head(files), TAR_BLOCK_SIZE) * TAR_BLOCK_SIZE
         + tarSizeOfFiles(Tail(files))

\* tarSize, for a meta whose JSON text has metaNumBytes bytes.
tarSize(metaNumBytes, files) ==
    TAR_BLOCK_SIZE + Ceil(metaNumBytes, TAR_BLOCK_SIZE) * TAR_BLOCK_SIZE
    + tarSizeOfFiles(files)
    + 2 * TAR_BLOCK_SIZE

\* The sizes of the entries tarPack hands to the packer, in order: meta.json,
\* then sequencing/<name> for each file.
tarPackEntries(metaNumBytes, files) == << metaNumBytes >> \o files

\* Mutant: the content of an entry is not padded to the block boundary.
packEntry_noPadding(size) == TAR_BLOCK_SIZE + size

\* The bytes the packer (the tar-stream package) writes for one entry: the
\* header block, the content, and zeros up to the next block boundary.
packEntry(size) ==
    LET overflow == size % TAR_BLOCK_SIZE
    IN  TAR_BLOCK_SIZE + size + (IF overflow > 0 THEN TAR_BLOCK_SIZE - overflow ELSE 0)

\* The bytes the packer (the tar-stream package) writes when it is finalized:
\* two zero blocks.
packFinalize == TAR_BLOCK_SIZE + TAR_BLOCK_SIZE

tarPackCall(metaNumBytes, files) ==
    [ fn |-> "tarPack", meta |-> metaNumBytes, files |-> files,
      entries |-> tarPackEntries(metaNumBytes, files),
      written |-> 0, emitted |-> 0, at |-> "packing" ]

\* metaJsonBytes(meta).length: the shortest JSON text of a SampleMeta has 73
\* bytes; lengths around the block boundaries.
MetaLengths == { 73, TAR_BLOCK_SIZE, TAR_BLOCK_SIZE + 1 }

\* file.size, around the block boundaries.
TarFileSizes == { 0, 1, TAR_BLOCK_SIZE, TAR_BLOCK_SIZE + 1, 2 * TAR_BLOCK_SIZE }

TarInit ==
    /\ params = NoParams
    /\ NotCalled
    /\ gen \in { tarPackCall(m, files) :
                    m \in MetaLengths,
                    files \in UNION { [ 1..n -> TarFileSizes ] : n \in 0..MaxFiles } }

\* The stream carries the next entry.
TarEntry ==
    /\ gen.fn = "tarPack"
    /\ gen.at = "packing"
    /\ gen.written < Len(gen.entries)
    /\ gen' = [gen EXCEPT !.written = @ + 1,
                          !.emitted = @ + packEntry(gen.entries[gen.written + 1])]
    /\ UNCHANGED invocation

\* The stream carries the end of the archive.
TarFinalize ==
    /\ gen.fn = "tarPack"
    /\ gen.at = "packing"
    /\ gen.written = Len(gen.entries)
    /\ gen' = [gen EXCEPT !.at = "finalized", !.emitted = @ + packFinalize]
    /\ UNCHANGED invocation

TarNext == TarEntry \/ TarFinalize

TarSpec == TarInit /\ [][TarNext]_vars

\* ---------------------------------------------------------- chunkStream

RECURSIVE sumOf(_)
sumOf(lens) == IF lens = << >> THEN 0 ELSE Head(lens) + sumOf(Tail(lens))

\* The bytes of segment k of a stream whose segments have the given lengths;
\* a byte is named by its position in the stream.
segmentBytes(lens, k) ==
    LET before == sumOf(SubSeq(lens, 1, k - 1))
    IN  [ j \in 1..lens[k] |-> before + j ]

chunkStreamCall(lens, chunkSize) ==
    [ fn |-> "chunkStream", segments |-> lens, chunkSize |-> chunkSize,
      read |-> 0, buffer |-> << >>, yielded |-> << >>, at |-> "start" ]

\* Mutant: the rest of the buffer is not yielded.
chunkStreamAfterLoop_noTail(g) == [g EXCEPT !.at = "done"]

\* After the for await loop: the last partial chunk.
chunkStreamAfterLoop(g) ==
    IF Len(g.buffer) > 0
    THEN [g EXCEPT !.at = "last", !.yielded = Append(@, g.buffer)]
    ELSE [g EXCEPT !.at = "done"]

RECURSIVE chunkStreamWhile(_), chunkStreamForAwait(_)

\* The test of the while loop.
chunkStreamWhile(g) ==
    IF Len(g.buffer) >= g.chunkSize
    THEN [g EXCEPT !.at = "inWhile", !.yielded = Append(@, SubSeq(g.buffer, 1, g.chunkSize))]
    ELSE chunkStreamForAwait(g)

\* The for await loop asks the stream for its next segment.
chunkStreamForAwait(g) ==
    IF g.read < Len(g.segments)
    THEN chunkStreamWhile([g EXCEPT !.read = @ + 1,
                                    !.buffer = @ \o segmentBytes(g.segments, g.read + 1)])
    ELSE chunkStreamAfterLoop(g)

\* One call of next() on the async generator: up to the next yield or the return.
chunkStreamNext(g) ==
    CASE g.at = "start"   -> chunkStreamForAwait(g)
      [] g.at = "inWhile" ->
            chunkStreamWhile([g EXCEPT !.buffer = SubSeq(@, g.chunkSize + 1, Len(@))])
      [] g.at = "last"    -> [g EXCEPT !.at = "done"]

ChunkInit ==
    /\ params = NoParams
    /\ NotCalled
    /\ gen \in { chunkStreamCall(lens, c) :
                    lens \in UNION { [ 1..n -> 0..MaxSegmentLen ] : n \in 0..MaxSegments },
                    c \in 1..MaxChunk }

\* The consumer's for await loop asks for the next chunk.
ChunkNext ==
    /\ gen.fn = "chunkStream"
    /\ gen.at # "done"
    /\ gen' = chunkStreamNext(gen)
    /\ UNCHANGED invocation

\* The consumer's loop runs until the generator returns.
ChunkSpec == ChunkInit /\ [][ChunkNext]_vars /\ WF_vars(ChunkNext)

\* ------------------------------------------- ensureQuoted, completion body

\* A string is the sequence of its characters.
QUOTE == "\""

Chars == { QUOTE, "a", " " }

RECURSIVE trimStart(_), trimEnd(_), stripLeadingQuotes(_), stripTrailingQuotes(_), text(_), join(_)

trimStart(t) == IF t # << >> /\ Head(t) = " " THEN trimStart(Tail(t)) ELSE t

trimEnd(t) == IF t # << >> /\ t[Len(t)] = " " THEN trimEnd(SubSeq(t, 1, Len(t) - 1)) ELSE t

trim(t) == trimEnd(trimStart(t))

startsWith(t, c) == t # << >> /\ Head(t) = c

endsWith(t, c) == t # << >> /\ t[Len(t)] = c

stripLeadingQuotes(t) ==
    IF startsWith(t, QUOTE) THEN stripLeadingQuotes(Tail(t)) ELSE t

stripTrailingQuotes(t) ==
    IF endsWith(t, QUOTE) THEN stripTrailingQuotes(SubSeq(t, 1, Len(t) - 1)) ELSE t

\* t.replace(/^"+|"+$/g, '')
stripQuotes(t) == stripTrailingQuotes(stripLeadingQuotes(t))

ensureQuoted(tag) ==
    LET t == trim(tag)
    IN  IF startsWith(t, QUOTE) /\ endsWith(t, QUOTE)
        THEN t
        ELSE << QUOTE >> \o stripQuotes(t) \o << QUOTE >>

\* The text of a sequence of characters.
text(t) == IF t = << >> THEN "" ELSE Head(t) \o text(Tail(t))

\* strings.join('')
join(strings) == IF strings = << >> THEN "" ELSE Head(strings) \o join(Tail(strings))

XML_NAMESPACE == "http://s3.amazonaws.com/doc/2006-03-01/"

\* The template of one item of the parts.
partXML(partNumber, eTag) ==
    "<Part><PartNumber>" \o ToString(partNumber) \o "</PartNumber><ETag>"
    \o text(ensureQuoted(eTag)) \o "</ETag></Part>"

getMultipartUploadXML(parts) ==
    "<?xml version=\"1.0\" encoding=\"UTF-8\"?>"
    \o "<CompleteMultipartUpload xmlns=\"" \o XML_NAMESPACE \o "\">"
    \o join([ i \in 1..Len(parts) |-> partXML(parts[i].partNumber, parts[i].eTag) ])
    \o "</CompleteMultipartUpload>"

getMultipartUploadXMLCall(parts) ==
    [ fn |-> "getMultipartUploadXML", parts |-> parts, at |-> "called",
      value |-> "", quoted |-> << >> ]

\* The body of getMultipartUploadXML; quoted keeps what ensureQuoted returned
\* for each part.
getMultipartUploadXMLBody(g) ==
    [g EXCEPT !.at = "returned",
              !.value = getMultipartUploadXML(g.parts),
              !.quoted = [ i \in 1..Len(g.parts) |-> ensureQuoted(g.parts[i].eTag) ]]

\* The eTags of the parts: every string of up to MaxTagLen characters, and
\* the two tags of the documented example.
ETags ==
    UNION { [ 1..k -> Chars ] : k \in 0..MaxTagLen }
    \cup { << "a", "b", "c" >>, << "d", "e", "f" >> }

\* The UploadedPart list with the given eTags.
UploadedParts(tags) == [ i \in 1..Len(tags) |-> [ partNumber |-> i, eTag |-> tags[i] ] ]

XmlInit ==
    /\ params = NoParams
    /\ NotCalled
    /\ gen \in { getMultipartUploadXMLCall(UploadedParts(tags)) :
                    tags \in UNION { [ 1..n -> ETags ] : n \in 0..MaxXmlParts } }

XmlNext ==
    /\ gen.fn = "getMultipartUploadXML"
    /\ gen.at = "called"
    /\ gen' = getMultipartUploadXMLBody(gen)
    /\ UNCHANGED invocation

XmlSpec == XmlInit /\ [][XmlNext]_vars

\* ------------------------------------------------------------------ backoff

\* backoff with the exponent attempt instead of attempt - 1.
backoff_doubleBase(att, random) == 300 * 2^att + (random * 100) \div RandomGrain

\* backoff(attempt); random stands for the value random / RandomGrain of
\* Math.random(), a number in [0, 1).
backoff(att, random) == 300 * 2^(att - 1) + (random * 100) \div RandomGrain

\* await sleep(backoff(attempt)) after the attempt-th attempt of a part failed.
backoffCall(att) == [ fn |-> "backoff", attempt |-> att, at |-> "called", ms |-> 0 ]

BackoffInit ==
    /\ params = NoParams
    /\ NotCalled
    /\ gen \in { backoffCall(att) : att \in 1..MaxBackoffAttempt }

backoffBody ==
    /\ gen.fn = "backoff"
    /\ gen.at = "called"
    /\ \E random \in 0..(RandomGrain - 1) :
         gen' = [gen EXCEPT !.at = "returned", !.ms = backoff(gen.attempt, random)]
    /\ UNCHANGED invocation

BackoffSpec == BackoffInit /\ [][backoffBody]_vars

\* ------------------------------------------- two concurrent invocations

\* The first invocation lives in the variables of the invocation, the second
\* in gen.inv; both upload the same file with the same params, and the caller
\* passes no signal.

\* The bindings of an invocation at the moment multiPartUpload is called.
newInvocation ==
    [ pc |-> "idle", uploadId |-> "", partSize |-> 0, numParts |-> 0, urls |-> << >>,
      uploaded |-> << >>, index |-> 0, attempt |-> 0, perLoaded |-> 0, bytesSent |-> 0,
      err |-> NoError, outcome |-> "pending", thrown |-> NoError,
      requests |-> [ create |-> 0, open |-> 0, put |-> 0, complete |-> 0, abort |-> 0 ],
      hist |-> << >>, abortResult |-> "none", lastProgress |-> NoProgress,
      answered |-> [ create |-> 0, open |-> 0, put |-> 0, complete |-> 0, abort |-> 0 ] ]

\* The bindings among uploadId, partSize, numParts, urls, uploaded, attempt,
\* perLoaded, bytesSent, ... that are shared by all invocations, with one
\* module-level binding that is written after the module's evaluation.
moduleLevelBindings_bytesSent == { "bytesSent" }

\* The bindings that are shared by all invocations: the ones declared at
\* module level that are written after the module's evaluation. The module
\* declares constants, functions and the XMLParser, and assigns to none of
\* them; every binding an invocation writes is a parameter or a let/const of
\* the function activation.
moduleLevelBindings == { }

\* What another invocation o holds once a task that ends in t has run.
afterTaskOfOther(o, t) ==
    [ f \in DOMAIN o |-> IF f \in moduleLevelBindings THEN t[f] ELSE o[f] ]

\* The tasks the event loop can run for invocation s; id is the UploadId the
\* backend hands to it.
Tasks(s, id) ==
    CallResults(s) \cup CreateResults(s, id) \cup ResumeResults(s) \cup OpenFailures(s) \cup OpenResults(s)
        \cup ProgressResults(s) \cup PutResults(s) \cup WakeResults(s)
        \cup CompleteResults(s) \cup AbortResults(s)

\* A task of the first invocation runs.
FirstTask ==
    /\ gen.fn = "multiPartUpload"
    /\ \E t \in Tasks(Cur, "upload-1") :
         /\ Become(t)
         /\ gen' = [gen EXCEPT !.inv = afterTaskOfOther(@, t)]
    /\ UNCHANGED << params, aborted, cancelledAt >>

\* A task of the second invocation runs.
SecondTask ==
    /\ gen.fn = "multiPartUpload"
    /\ \E t \in Tasks(gen.inv, "upload-2") :
         /\ gen' = [gen EXCEPT !.inv = t]
         /\ Become(afterTaskOfOther(Cur, t))
    /\ UNCHANGED << params, aborted, cancelledAt >>

\* Both upload a one-part file with numRetries at its bound, progress
\* reported, no signal.
ConcInit ==
    /\ params = [ fileSize |-> 3, partSize |-> <<FALSE, 0>>,
                  numRetries |-> <<TRUE, MaxConcRetries>>,
                  hasSignal |-> FALSE, hasOnProgress |-> TRUE ]
    /\ NotCalled
    /\ gen = [ fn |-> "multiPartUpload", inv |-> newInvocation ]

ConcSpec == ConcInit /\ [][FirstTask \/ SecondTask]_vars

\* --------------------------------------------- the items of the part-URL response

\* The items a part-URL response is made of: partNumber a number (0, 1, 2, 3
\* and 1.5), a string ("1", "2", "", "a", "1.5", "2.0", "02") or missing, with
\* the url signed for that part, and an item whose url is not a string.
RawItems ==
    { [ partNumber |-> JsNumber(k, TRUE), url |-> JsString(<< >>, k) ] : k \in 0..3 }
    \cup { [ partNumber |-> JsNumber(1, FALSE), url |-> JsString(<< >>, 1) ] }
    \cup { [ partNumber |-> JsString(<< "1" >>, 0), url |-> JsString(<< >>, 1) ],
           [ partNumber |-> JsString(<< "2" >>, 0), url |-> JsString(<< >>, 2) ],
           [ partNumber |-> JsString(<< >>, 0), url |-> JsString(<< >>, 0) ],
           [ partNumber |-> JsString(<< "a" >>, 0), url |-> JsString(<< >>, 0) ],
           [ partNumber |-> JsString(<< "1", ".", "5" >>, 0), url |-> JsString(<< >>, 1) ],
           [ partNumber |-> JsString(<< "2", ".", "0" >>, 0), url |-> JsString(<< >>, 2) ],
           [ partNumber |-> JsString(<< "0", "2" >>, 0), url |-> JsString(<< >>, 2) ] }
    \cup { [ partNumber |-> [ type |-> "undefined", v |-> 0, integer |-> FALSE, text |-> << >> ],
             url |-> JsString(<< >>, 1) ],
           [ partNumber |-> JsNumber(1, TRUE), url |-> JsNumber(1, TRUE) ] }

\* A file of two parts is uploaded without retries, signal or progress
\* callback; gen.data is the array the part-URL request was answered with.
OpenInit ==
    /\ params = [ fileSize |-> S3_MIN_PART_SIZE + 3, partSize |-> <<TRUE, 1>>,
                  numRetries |-> <<TRUE, 0>>, hasSignal |-> FALSE, hasOnProgress |-> FALSE ]
    /\ NotCalled
    /\ gen = [ fn |-> "openMultipartUpload", data |-> << >> ]

\* A task of the invocation runs: the answer to the part-URL request with an
\* array of RawItems, or any other task.
OpenTask ==
    /\ gen.fn = "openMultipartUpload"
    /\ \/ /\ pc = "opening"
          /\ \E len \in 0..MaxOpenItems : \E data \in [ 1..len -> RawItems ] :
               /\ Become(OpenResultOf(Cur, data))
               /\ gen' = [gen EXCEPT !.data = data]
       \/ /\ \E t \in Tasks(Cur, "upload-1") \ OpenResults(Cur) : Become(t)
          /\ UNCHANGED gen
    /\ UNCHANGED << params, aborted, cancelledAt >>

OpenSpec == OpenInit /\ [][OpenTask]_vars

\* ------------------------------------------------- the FileUpload component

\* The component's state is gen: items is the array `items` as a list of item
\* ids, item the UploadItem objects (controller 0: undefined; result "none":
\* undefined), runs the activations of onUploadFile (list: the array its
\* for-of loop iterates; pos: the position of the item whose multiPartUpload
\* it awaits, 0 when it has returned; ctl: the AbortController of that
\* invocation; sent: the bytesSent that invocation reported last), aborted
\* the AbortControllers whose abort() was called. History: clicks, removed
\* (ids removed by handleCancelUpload), lateStart (ids for which
\* multiPartUpload was called after their removal), succeeded (ids of which a
\* multiPartUpload returned a result), skipped (ids a loop skipped as uploaded
\* of which no multiPartUpload had returned a result).

\* isUploaded(item)
isUploaded(item) == item.bytesSent >= item.totalBytes

\* The for-of loop of onUploadFile of run r, from position pos of its array
\* to its next await: uploaded items are skipped; for the first other item an
\* AbortController is created and stored and multiPartUpload is called.
RECURSIVE forOfItems(_, _, _)
forOfItems(c, r, pos) ==
    LET list == c.runs[r].list
    IN  IF pos > Len(list)
        THEN [c EXCEPT !.runs[r] = [ list |-> << >>, pos |-> 0, ctl |-> 0, sent |-> 0 ]]
        ELSE LET id == list[pos]
                 k  == c.controllers + 1
             IN  IF isUploaded(c.item[id])
                 THEN forOfItems(
                          [c EXCEPT !.skipped = IF id \notin c.succeeded
                                                THEN @ \cup {id} ELSE @],
                          r, pos + 1)
                 ELSE [c EXCEPT !.controllers = k,
                                !.item[id].controller = k,
                                !.runs[r] = [ list |-> list, pos |-> pos, ctl |-> k, sent |-> 0 ],
                                !.lateStart = IF id \in c.removed THEN @ \cup {id} ELSE @]

\* The component after handleFileAccept built the items of the chosen files,
\* of 0 or 2 bytes each.
UploadInit ==
    /\ params = NoParams
    /\ NotCalled
    /\ \E n \in 1..MaxItems : \E size \in [ 1..n -> {0, 2} ] :
         gen = [ fn |-> "FileUpload",
                 items |-> [ i \in 1..n |-> i ],
                 item |-> [ i \in 1..n |-> [ bytesSent |-> 0, totalBytes |-> size[i],
                                             result |-> "none", controller |-> 0 ] ],
                 size |-> size,
                 runs |-> << >>, aborted |-> { }, controllers |-> 0,
                 clicks |-> 0, removed |-> { }, lateStart |-> { }, succeeded |-> { },
                 skipped |-> { } ]

\* The Upload button is clicked: onUploadFile up to its first await.
onUploadFile ==
    /\ gen.fn = "FileUpload"
    /\ gen.clicks < MaxClicks
    /\ gen' = IF gen.items = << >>
              THEN [gen EXCEPT !.clicks = @ + 1]
              ELSE forOfItems(
                       [gen EXCEPT !.clicks = @ + 1,
                                   !.runs = Append(@, [ list |-> gen.items, pos |-> 0,
                                                        ctl |-> 0, sent |-> 0 ])],
                       Len(gen.runs) + 1, 1)
    /\ UNCHANGED invocation

\* A multiPartUpload in flight, whose signal is not raised, calls onProgress.
onProgress ==
    /\ gen.fn = "FileUpload"
    /\ \E r \in 1..Len(gen.runs) :
         LET run == gen.runs[r]
             id  == run.list[run.pos]
         IN  /\ run.pos > 0
             /\ run.ctl \notin gen.aborted
             /\ \E sent \in (run.sent + 1)..gen.size[id] :
                  gen' = [gen EXCEPT !.runs[r].sent = sent,
                                     !.item[id].bytesSent = sent,
                                     !.item[id].totalBytes = gen.size[id]]
    /\ UNCHANGED invocation

\* The multiPartUpload a run awaits settles: with the result (signal not
\* raised, file not empty), with undefined (signal raised), or rejected; the
\* run stores res, clears item.controller and goes on with its loop.
multiPartUploadSettled ==
    /\ gen.fn = "FileUpload"
    /\ \E r \in 1..Len(gen.runs) :
         LET run == gen.runs[r]
             id  == run.list[run.pos]
             outcomes == { "rejected" }
                         \cup (IF run.ctl \in gen.aborted THEN { "undefined" } ELSE { })
                         \cup (IF run.ctl \notin gen.aborted /\ gen.size[id] > 0
                               THEN { "result" } ELSE { })
         IN  /\ run.pos > 0
             /\ \E res \in outcomes :
                  gen' = forOfItems(
                             [gen EXCEPT !.item[id].result =
                                             CASE res = "result" -> "result"
                                               [] res = "undefined" -> "none"
                                               [] OTHER -> @,
                                         !.item[id].controller = 0,
                                         !.succeeded = IF res = "result"
                                                       THEN @ \cup {id} ELSE @],
                             r, run.pos + 1)
    /\ UNCHANGED invocation

\* The cancel button of an item of the list is clicked.
handleCancelUpload ==
    /\ gen.fn = "FileUpload"
    /\ \E i \in 1..Len(gen.items) :
         LET id   == gen.items[i]
             item == gen.item[id]
         IN  gen' = [gen EXCEPT
                        !.aborted = IF item.bytesSent < item.totalBytes /\ item.controller # 0
                                    THEN @ \cup {item.controller} ELSE @,
                        !.items = SelectSeq(@, LAMBDA x : x # id),
                        !.removed = @ \cup {id}]
    /\ UNCHANGED invocation

UploadSpec ==
    UploadInit
    /\ [][onUploadFile \/ onProgress \/ multiPartUploadSettled \/ handleCancelUpload]_vars

\* ------------------------------------------------------------------- claims

settled == pc = "done"

sessionExists == uploadId # ""

duringTransfer == cancelledAt \in {"putting", "sleeping"}

\* The part number of the part of the running loop iteration.
currentPartNumber == urls[index + 1].partNumber

\* The part numbers of a list of PartUrl or UploadedPart records.
partNumbersOf(list) == [ i \in 1..Len(list) |-> list[i].partNumber ]

\* C1: an invocation that obtained an uploadId has, when it returns or throws,
\* either received a successful completion response or issued an abort request.
C1_NoSessionLeak ==
    (settled /\ sessionExists) => (outcome = "result" \/ requests.abort >= 1)

\* C2: a failure after the uploadId was obtained reaches the caller only after
\* the abort request was issued and answered, and when the abort request
\* succeeded the caller receives the error that was caught.
C2_AbortBeforeRethrow ==
    /\ pc = "aborting" => (requests.abort = 1 /\ err # NoError /\ sessionExists)
    /\ (settled /\ sessionExists /\ outcome = "rejected") =>
          /\ requests.abort = 1
          /\ abortResult # "none"
          /\ abortResult = "ok" => (thrown = err /\ err # NoError)

C2_Witness ==
    /\ settled
    /\ outcome = "rejected"
    /\ abortResult = "ok"
    /\ thrown.kind = "PartUploadFailed"
    /\ thrown.part = 2

\* C3: when a step after initiation failed with an error and the abort request
\* failed too, the caller still receives the first error.
C3_AbortFailureSwallowed ==
    (settled /\ abortResult = "failed") => (outcome = "rejected" /\ thrown = err)

\* C4: when createMultipartUpload fails its error reaches the caller as it is,
\* the initiate request is issued once, and no other request is ever issued.
C4_CreateFailurePropagates ==
    /\ requests.create <= 1
    /\ ~sessionExists =>
          /\ requests.open = 0 /\ requests.put = 0
          /\ requests.complete = 0 /\ requests.abort = 0
          /\ err = NoError
    /\ (settled /\ ~sessionExists) =>
          /\ outcome = "rejected"
          /\ thrown.kind \in {"CreateRequestError", "UnexpectedXML", "CanceledError"}

C4_Witness ==
    /\ settled
    /\ ~sessionExists
    /\ thrown.kind = "UnexpectedXML"
    /\ requests.create = 1

\* C5: when the signal is raised during the transfer phase the completion
\* request is never issued and multiPartUpload resolves to undefined: it does
\* not enter its catch clause, which always ends in a rejection.
C5_CancelResolvesUndefined ==
    duringTransfer =>
        /\ requests.complete = 0
        /\ pc # "aborting"
        /\ settled => outcome = "undefined"

\* C6: when the signal is raised during the transfer phase exactly one abort
\* request is issued for the session.
C6_CancelAbortsOnce ==
    (settled /\ duringTransfer) => requests.abort = 1

\* C7: a part whose PUT answers a retryable status on its first k attempts,
\* k <= numRetries, and 2xx with etag on attempt k + 1 succeeds with exactly
\* one UploadedPart: after k <= numRetries retryable answers the part has not
\* failed, and after the successful answer its part number is recorded once.
C7_RetryableThenSuccess ==
    LET onlyRetryable(h) == \A i \in 1..Len(h) : h[i] = "retryable"
    IN  /\ ( /\ ~aborted
             /\ hist # << >>
             /\ onlyRetryable(hist)
             /\ Len(hist) <= numRetries )
           => ~(pc \in {"aborting", "done"} /\ err.kind = "PartUploadFailed")
        /\ ( /\ hist # << >>
             /\ hist[Len(hist)] = "ok"
             /\ onlyRetryable(SubSeq(hist, 1, Len(hist) - 1)) )
           => Cardinality({ i \in 1..Len(uploaded) :
                              uploaded[i].partNumber = currentPartNumber }) = 1

\* C8: when every answer to a part's PUT was a retryable status until the
\* upload gave up (the signal never raised), the upload fails with an error,
\* no UploadedPart is recorded for the part, no completion request is issued
\* and one abort request is issued.
C8_ExhaustedRetriesAbort ==
    ( /\ settled
      /\ ~aborted
      /\ hist # << >>
      /\ \A i \in 1..Len(hist) : hist[i] = "retryable" )
    => /\ outcome = "rejected"
       /\ err.kind = "PartUploadFailed"
       /\ err.part = currentPartNumber
       /\ \A i \in 1..Len(uploaded) : uploaded[i].partNumber # currentPartNumber
       /\ requests.complete = 0
       /\ requests.abort = 1

C8_Witness ==
    /\ settled
    /\ ~aborted
    /\ numRetries = DEFAULT_NUM_RETRIES
    /\ hist = << "retryable", "retryable", "retryable" >>
    /\ index = 1
    /\ outcome = "rejected"
    /\ requests.abort = 1

\* C9: the bytesSent values passed to onProgress never decrease and never
\* exceed totalBytes, over all parts and attempts.
C9_ProgressMonotone ==
    [][ lastProgress' # lastProgress =>
          /\ lastProgress'.bytesSent >= lastProgress.bytesSent
          /\ lastProgress'.bytesSent <= lastProgress'.totalBytes
          /\ lastProgress'.totalBytes = params.fileSize ]_vars

\* Progress was reported in a first attempt and again in a retry of the same
\* part, the second part of the file, up to the whole file.
C9_Witness ==
    /\ pc = "putting"
    /\ index = 1
    /\ attempt = 2
    /\ lastProgress.attempt = 2
    /\ lastProgress.partNumber = 2
    /\ lastProgress.bytesSent = params.fileSize
    /\ perLoaded = 3

\* C10: when the sorted part-URL list is not exactly 1..numParts the upload
\* fails before any PUT is attempted.
C10_UrlListValidated ==
    ( /\ sessionExists
      /\ pc \notin {"idle", "creating", "created", "opening"}
      /\ partNumbersOf(urls) # [ i \in 1..numParts |-> i ] )
    => /\ requests.put = 0
       /\ pc \in {"aborting", "done"}
       /\ outcome \in {"pending", "rejected"}

\* The PUT requests issued and not yet answered.
putsInFlight == requests.put - answered.put

\* params.partSize as the caller passed it is not a valid part size.
invalidPartSizeParam == params.partSize[1] /\ normalizePartSizeThrows(params.partSize[2])

\* C11: for a source of 0 bytes the part count is 0 and the upload fails with
\* an error: no part-URL request, no PUT and no completion request is issued,
\* and the session that was created is aborted.
C11_EmptySourceAborted ==
    params.fileSize = 0 =>
        /\ requests.open = 0 /\ requests.put = 0 /\ requests.complete = 0
        /\ ~invalidPartSizeParam =>
              getNumParts(params.fileSize,
                          normalizePartSize(params.fileSize,
                              IF params.partSize[1] THEN params.partSize[2]
                              ELSE DEFAULT_PART_SIZE)) = 0
        /\ (sessionExists /\ pc # "created") =>
              /\ pc \in {"aborting", "done"}
              /\ requests.abort = 1
              /\ err.kind = IF invalidPartSizeParam THEN "RangeErrorChunkSize"
                            ELSE "RangeErrorNumParts"
        /\ settled => outcome = "rejected"

C11_Witness ==
    /\ params.fileSize = 0
    /\ settled
    /\ sessionExists
    /\ err.kind = "RangeErrorNumParts"
    /\ thrown = err
    /\ answered.abort = 1

\* C12: parts are transferred one after the other in ascending order: at most
\* one PUT is in flight, an attempt for part k + 1 runs only when the etags of
\* parts 1..k are recorded, and the UploadedPart list is always the part
\* numbers 1..k in ascending order.
C12_SequentialAscending ==
    /\ putsInFlight \in {0, 1}
    /\ putsInFlight = 1 <=> pc = "putting"
    /\ partNumbersOf(uploaded) = [ i \in 1..Len(uploaded) |-> i ]
    /\ pc \in {"putting", "sleeping"} =>
          /\ Len(uploaded) = index
          /\ currentPartNumber = index + 1

C12_Witness ==
    /\ pc = "putting"
    /\ attempt = 1
    /\ index = 1
    /\ partNumbersOf(uploaded) = << 1 >>
    /\ answered.put >= 2

\* C13: a PUT attempt records the part's etag exactly when its response has a
\* status s with 200 <= s < 300 and an etag header; any other response never
\* records an UploadedPart.
C13_SuccessIff2xxWithEtag ==
    hist # << >> =>
        ( hist[Len(hist)] = "ok"
          <=> \E i \in 1..Len(uploaded) : uploaded[i].partNumber = currentPartNumber )

\* C14: an attempt of the same part follows a failed PUT attempt only when the
\* outcome was 408, 429, a 5xx status or a failure without response; another
\* status and a 2xx response without etag end the part with no further attempt,
\* whatever is left of the retry budget.
C14_RetryOnlyRetryable ==
    LET retried(c) == c \in {"retryable", "network"}
        last == hist[Len(hist)]
    IN  /\ \A i \in 1..(Len(hist) - 1) : retried(hist[i])
        /\ pc = "putting" => \A i \in 1..Len(hist) : retried(hist[i])
        /\ pc = "sleeping" => (retried(last) \/ last = "canceled")
        /\ (hist # << >> /\ last \in {"other", "noetag"}) => pc \notin {"putting", "sleeping"}
        /\ (hist # << >> /\ last = "noetag") =>
              /\ pc \in {"aborting", "done"}
              /\ err.kind = "PartUploadFailed"
              /\ err.attempt = Len(hist)

\* A 404 on the second attempt ends the part although two retries are left.
C14_Witness ==
    /\ pc = "aborting"
    /\ numRetries = DEFAULT_NUM_RETRIES
    /\ hist = << "retryable", "other" >>
    /\ err.kind = "PartUploadFailed"
    /\ err.status = 404
    /\ err.attempt = 2
    /\ requests.put = 2

\* C15: for positive totalBytes and chunkSize iterateFileChunks yields exactly
\* ceil(totalBytes / chunkSize) ranges [start, end) with indexes 0, 1, 2, ...,
\* contiguous and not overlapping, whose union is [0, totalBytes), each of
\* length chunkSize except possibly the last, with isLast true on the final
\* element and on no other; for totalBytes = 0 it yields nothing.
C15_ChunksTileFile ==
    (gen.fn = "iterateFileChunks" /\ gen.chunkSize > 0) =>
        LET y     == gen.yielded
            n     == Len(y)
            total == gen.fileSize
            c     == gen.chunkSize
        IN  /\ gen.threw = "none"
            /\ \A i \in 1..n :
                  /\ y[i].index = i - 1
                  /\ y[i].start = (IF i = 1 THEN 0 ELSE y[i - 1].end)
                  /\ y[i].start < y[i].end
                  /\ y[i].end <= total
                  /\ y[i].size = y[i].end - y[i].start
                  /\ y[i].end - y[i].start <= c
                  /\ ~y[i].isLast => y[i].end - y[i].start = c
                  /\ y[i].isLast <=> y[i].end = total
                  /\ y[i].isLast => i = n
            /\ gen.at = "done" =>
                  /\ total = 0 => n = 0
                  /\ total > 0 => (n >= 1 /\ y[n].end = total /\ y[n].isLast)
                  /\ n * c >= total
                  /\ n > 0 => (n - 1) * c < total

\* A file of three chunks whose last chunk is shorter than chunkSize.
C15_Witness ==
    /\ gen.fn = "iterateFileChunks"
    /\ gen.at = "done"
    /\ Len(gen.yielded) = 3
    /\ gen.yielded[3].size < gen.chunkSize
    /\ gen.yielded[3].size > 0
    /\ gen.yielded[2].size = gen.chunkSize

\* C16: normalizePartSize(file, desired) returns the largest of desired, 5 MiB
\* and ceil(file.size / 10000) for a positive finite desired, and throws a
\* RangeError when desired is zero, negative or not finite.
C16_NormalizedPartSize ==
    (gen.fn = "normalizePartSize" /\ gen.at # "called") =>
        LET d == gen.desired
            m == gen.value
            \* x * 10000 >= file.size, for file.size = q * 10000 + r
            covers(x) == x > gen.size.q \/ (x = gen.size.q /\ gen.size.r = 0)
        IN  IF d.finite /\ d.v > 0
            THEN /\ gen.at = "returned"
                 /\ m >= d.v
                 /\ m >= 5 * 1024 * 1024
                 /\ covers(m)
                 /\ \/ m = d.v
                    \/ m = 5 * 1024 * 1024
                    \/ ~covers(m - 1)
            ELSE /\ gen.at = "threw"
                 /\ gen.threw = "RangeError"

\* A file so large that the part count decides the part size.
C16_Witness ==
    /\ gen.fn = "normalizePartSize"
    /\ gen.at = "returned"
    /\ gen.size.r > 0
    /\ gen.value = gen.size.q + 1
    /\ gen.value > gen.desired.v
    /\ gen.value > 5 * 1024 * 1024

\* C17: tarSize(meta, files) is the byte length of the stream of
\* tarPack(meta, files): per entry (meta.json, then each file) one 512-byte
\* header block and the content rounded up to a multiple of 512, then two
\* 512-byte zero blocks.
C17_TarSizeIsStreamLength ==
    gen.fn = "tarPack" =>
        /\ gen.emitted % 512 = 0
        /\ gen.at = "packing" => gen.emitted < tarSize(gen.meta, gen.files)
        /\ gen.at = "finalized" => gen.emitted = tarSize(gen.meta, gen.files)

\* meta.json of 73 bytes, a file of 1 byte and a file of 513 bytes: 9 blocks.
C17_Witness ==
    /\ gen.fn = "tarPack"
    /\ gen.at = "finalized"
    /\ gen.meta = 73
    /\ gen.files = << 1, 513 >>
    /\ gen.emitted = 9 * 512

\* The concatenation of a sequence of byte sequences.
RECURSIVE concat(_)
concat(chunks) == IF chunks = << >> THEN << >> ELSE Head(chunks) \o concat(Tail(chunks))

\* What chunkStream has yielded so far is made of non-empty chunks of
\* chunkSize bytes, the last one possibly shorter, whose concatenation is the
\* beginning of the input, and all of it when the generator has returned.
chunkStreamSafe ==
    LET y     == gen.yielded
        n     == Len(y)
        c     == gen.chunkSize
        total == sumOf(gen.segments)
        out   == concat(y)
    IN  /\ \A i \in 1..n : Len(y[i]) >= 1 /\ Len(y[i]) <= c
        /\ \A i \in 1..(n - 1) : Len(y[i]) = c
        /\ Len(out) <= total
        /\ out = [ j \in 1..Len(out) |-> j ]
        /\ gen.at = "done" =>
              /\ Len(out) = total
              /\ n * c >= total
              /\ n > 0 => (n - 1) * c < total

\* C18: for a finite input split into segments of any lengths and a positive
\* chunkSize, chunkStream terminates, the chunks it yields concatenate to the
\* input, every chunk has chunkSize bytes except possibly the last, which has
\* 1..chunkSize bytes, and so there are ceil(totalBytes / chunkSize) chunks.
C18_ChunkStream == [](gen.fn = "chunkStream" => chunkStreamSafe) /\ <>(gen.at = "done")

\* Segments of 3, 0 and 3 bytes in chunks of 4: a chunk that spans segments
\* and a last chunk of 2 bytes.
C18_Witness ==
    /\ gen.fn = "chunkStream"
    /\ gen.at = "done"
    /\ gen.segments = << 3, 0, 3 >>
    /\ gen.chunkSize = 4
    /\ gen.yielded = << << 1, 2, 3, 4 >>, << 5, 6 >> >>

\* A tag of at least two characters that starts and ends with a double quote.
wrappedInQuotes(t) == Len(t) >= 2 /\ t[1] = "\"" /\ t[Len(t)] = "\""

\* C19: the completion body is the XML declaration followed by one
\* CompleteMultipartUpload element of the 2006-03-01 namespace with one
\* <Part><PartNumber>N</PartNumber><ETag>"tag"</ETag></Part> per part in the
\* order of the list; a tag not wrapped in double quotes is emitted wrapped in
\* one pair and a wrapped one unchanged; for [{1,abc},{2,def}] the body is the
\* documented string.
C19_CompletionBody ==
    (gen.fn = "getMultipartUploadXML" /\ gen.at = "returned") =>
        LET parts == gen.parts
            n     == Len(parts)
            plain(t) == \A i \in 1..Len(t) : t[i] \notin { "\"", " " }
            item(i) == "<Part><PartNumber>" \o ToString(parts[i].partNumber)
                       \o "</PartNumber><ETag>" \o text(gen.quoted[i]) \o "</ETag></Part>"
        IN  /\ Len(gen.quoted) = n
            /\ gen.value =
                  "<?xml version=\"1.0\" encoding=\"UTF-8\"?><CompleteMultipartUpload xmlns=\"http://s3.amazonaws.com/doc/2006-03-01/\">"
                  \o join([ i \in 1..n |-> item(i) ])
                  \o "</CompleteMultipartUpload>"
            /\ \A i \in 1..n :
                  /\ wrappedInQuotes(parts[i].eTag) => gen.quoted[i] = parts[i].eTag
                  /\ ~wrappedInQuotes(parts[i].eTag) => wrappedInQuotes(gen.quoted[i])
                  /\ plain(parts[i].eTag) =>
                        gen.quoted[i] = << "\"" >> \o parts[i].eTag \o << "\"" >>
            /\ parts = UploadedParts(<< << "a", "b", "c" >>, << "d", "e", "f" >> >>) =>
                  gen.value = "<?xml version=\"1.0\" encoding=\"UTF-8\"?><CompleteMultipartUpload xmlns=\"http://s3.amazonaws.com/doc/2006-03-01/\"><Part><PartNumber>1</PartNumber><ETag>\"abc\"</ETag></Part><Part><PartNumber>2</PartNumber><ETag>\"def\"</ETag></Part></CompleteMultipartUpload>"

\* C20: an invalid part size in the params makes multiPartUpload fail with the
\* invalid-argument error before any network request is issued.
C20_InvalidPartSizeNoRequest ==
    invalidPartSizeParam =>
        /\ requests.create = 0 /\ requests.open = 0 /\ requests.put = 0
        /\ requests.complete = 0 /\ requests.abort = 0
        /\ settled => thrown.kind = "RangeErrorChunkSize"

\* C21: the abort request is not bound to the signal: when a step after the
\* initiation fails while the signal is raised, the abort request is still
\* sent to the backend and answered by it.
C21_AbortIgnoresSignal ==
    (sessionExists /\ err # NoError) =>
        /\ requests.abort = 1
        /\ pc = "aborting" <=> answered.abort = 0
        /\ settled => abortResult \in {"ok", "failed"}

\* The part-URL request was cancelled by the signal and the session aborted.
C21_Witness ==
    /\ settled
    /\ aborted
    /\ cancelledAt = "opening"
    /\ err.kind = "CanceledError"
    /\ answered.abort = 1
    /\ abortResult = "ok"

\* C23: whatever the mix of retryable statuses and failures without response,
\* a part is attempted at most numRetries + 1 times.
C23_AttemptsBounded ==
    /\ attempt <= numRetries + 1
    /\ Len(hist) <= numRetries + 1
    /\ requests.put <= (numRetries + 1) * numParts
    /\ pc = "putting" => requests.put - answered.put = 1 /\ Len(hist) = attempt - 1

\* A retryable status, then a failure without response on the last attempt left.
C23_Witness ==
    /\ pc = "aborting"
    /\ ~aborted
    /\ numRetries >= 1
    /\ attempt = numRetries + 1
    /\ hist[1] = "retryable"
    /\ hist[Len(hist)] = "network"
    /\ err.kind = "PartUploadFailed"

\* C24: the retry bound is the same for both kinds of failure: a part whose
\* every attempt ends with a retryable status and a part whose every attempt
\* ends without response are both given up after numRetries + 1 attempts.
C24_UniformRetryBound ==
    \A c \in {"retryable", "network"} :
        ( /\ ~aborted
          /\ pc \in {"aborting", "done"}
          /\ err.kind = "PartUploadFailed"
          /\ hist # << >>
          /\ \A i \in 1..Len(hist) : hist[i] = c )
        => Len(hist) = numRetries + 1

\* No callback of the attempt in flight has added to perLoaded yet.
noProgressInAttempt ==
    lastProgress.partNumber # currentPartNumber \/ lastProgress.attempt # attempt

\* C25 as stated: perLoaded is 0 at the start of every attempt of a part,
\* retries included, so that bytesSent grows by the difference to the loaded
\* value of the previous callback of the same attempt.
C25_ResetEveryAttempt ==
    (pc = "putting" /\ noProgressInAttempt) => perLoaded = 0

\* C25, amended: perLoaded is 0 at the first attempt of every part and is kept
\* from one attempt of the part to the next; a callback adds to bytesSent
\* exactly the positive difference between the loaded value and perLoaded, the
\* largest loaded value seen for the part so far.
C25_ResetEveryPart ==
    [][ /\ (pc' = "putting" /\ attempt' = 1 /\ (pc # "putting" \/ index' # index))
            => perLoaded' = 0
        /\ (pc = "sleeping" /\ pc' = "putting") =>
              (attempt' = attempt + 1 /\ index' = index /\ perLoaded' = perLoaded)
        /\ bytesSent' # bytesSent =>
              \/ pc # "putting" /\ bytesSent' = 0
              \/ /\ pc = "putting" /\ pc' = "putting"
                 /\ perLoaded' > perLoaded
                 /\ bytesSent' - bytesSent = perLoaded' - perLoaded ]_vars

\* A retry in flight whose perLoaded is what the first attempt reported.
C25_Witness ==
    /\ pc = "putting"
    /\ attempt = 2
    /\ lastProgress.attempt = 1
    /\ lastProgress.partNumber = currentPartNumber
    /\ perLoaded = 3
    /\ bytesSent = 3

\* C26: the signal is checked before every PUT attempt: once it is raised no
\* PUT attempt is started, a PUT in flight being one that was in flight when
\* the signal was raised, and the attempt loop is left without a part-level
\* error.
C26_CancelStopsAttempts ==
    aborted =>
        /\ pc = "putting" => cancelledAt = "putting"
        /\ duringTransfer => err.kind # "PartUploadFailed"

\* C27: whenever the completion request is issued its manifest lists the part
\* numbers 1..numParts, each once and in ascending order, each with the etag
\* the PUT to the URL carrying that part number was answered with; the
\* completion request is never issued with a partial or empty list.
C27_ManifestComplete ==
    requests.complete >= 1 =>
        /\ numParts >= 1
        /\ partNumbersOf(uploaded) = [ i \in 1..numParts |-> i ]
        /\ \A i \in 1..Len(uploaded) :
              /\ urls[i].partNumber = uploaded[i].partNumber
              /\ uploaded[i].eTag = ETagOf(urls[i].url)
        /\ requests.put >= numParts
        /\ putsInFlight = 0

\* The completion request of a file of two parts, one of them sent twice.
C27_Witness ==
    /\ pc = "completing"
    /\ numParts = 2
    /\ Len(uploaded) = 2
    /\ requests.put = 3

\* C28: the completion request is issued at most once and never retried; when
\* it fails the upload fails with the error of the completion request and one
\* abort request is issued for the session.
C28_CompletionFailureAborts ==
    /\ requests.complete <= 1
    /\ err.kind = "CompleteRequestError" =>
          /\ requests.complete = 1
          /\ requests.abort = 1
          /\ pc \in {"aborting", "done"}
          /\ settled => (outcome = "rejected" /\ thrown = err)

\* The requests issued and not yet answered, of all kinds.
requestsInFlight ==
    (requests.create - answered.create) + (requests.open - answered.open)
    + putsInFlight + (requests.complete - answered.complete)
    + (requests.abort - answered.abort)

\* C29: the requests of an invocation follow the order initiate, open, PUTs,
\* complete or abort, with at most one request outstanding: initiate, open and
\* abort are issued at most once, open only after initiate returned an
\* uploadId and with numParts = ceil(totalBytes / partSize), and no PUT before
\* open returned.
C29_ProtocolOrder ==
    /\ requestsInFlight \in {0, 1}
    /\ requests.create <= 1 /\ requests.open <= 1 /\ requests.abort <= 1
    /\ requests.open >= 1 =>
          /\ answered.create = 1
          /\ sessionExists
          /\ numParts * partSize >= params.fileSize
          /\ (numParts - 1) * partSize < params.fileSize
    /\ requests.put >= 1 => answered.open = 1
    /\ requests.complete >= 1 => (requests.put >= 1 /\ requests.put = answered.put)
    /\ requests.abort >= 1 =>
          /\ sessionExists
          /\ pc \in {"aborting", "done"}
          /\ requests.complete = answered.complete

\* Every kind of request was issued: the completion request failed.
C29_Witness ==
    /\ pc = "aborting"
    /\ numParts = 2
    /\ requests = [ create |-> 1, open |-> 1, put |-> 2, complete |-> 1, abort |-> 1 ]
    /\ answered = [ create |-> 1, open |-> 1, put |-> 2, complete |-> 1, abort |-> 0 ]

\* C30: a 2xx PUT response without etag header fails the part at once: it is
\* not retried whatever is left of the retry budget, no UploadedPart is
\* recorded for the part, and the upload takes the abort-then-rethrow path.
C30_MissingEtagFatal ==
    (hist # << >> /\ hist[Len(hist)] = "noetag") =>
        /\ \A i \in 1..(Len(hist) - 1) : hist[i] # "noetag"
        /\ pc \in {"aborting", "done"}
        /\ err.kind = "PartUploadFailed"
        /\ err.cause = "missing etag"
        /\ err.part = currentPartNumber
        /\ err.attempt = Len(hist)
        /\ \A i \in 1..Len(uploaded) : uploaded[i].partNumber # currentPartNumber
        /\ requests.put = answered.put
        /\ requests.complete = 0
        /\ requests.abort = 1
        /\ settled => (outcome = "rejected" /\ (abortResult = "ok" => thrown = err))

\* The first attempt of a part is answered 200 without etag, three retries left.
C30_Witness ==
    /\ settled
    /\ numRetries = DEFAULT_NUM_RETRIES
    /\ hist = << "noetag" >>
    /\ err.status = 200
    /\ thrown = err
    /\ requests.abort = 1

C31_BackoffDelay ==
    (gen.fn = "backoff" /\ gen.at = "returned") =>
        LET n == gen.attempt
            lower[k \in 1..n] == IF k = 1 THEN 300 ELSE 2 * lower[k - 1]
        IN  /\ n >= 1
            /\ gen.ms - lower[n] \in 0..99

\* The delay before the third extra attempt, with the largest jitter.
C31_Witness ==
    /\ gen.fn = "backoff"
    /\ gen.at = "returned"
    /\ gen.attempt = 3
    /\ gen.ms = 1299

\* C32: every item of the part-URL response is validated before use. A
\* partNumber that is a string is coerced to the number it denotes; when the
\* partNumber of some item is not a positive integer, or its url is not a
\* string, open fails: no PUT is sent, the request is not repeated and the
\* session is aborted. Otherwise the items are used with their numeric part
\* numbers, in ascending order.
C32_ItemsValidated ==
    (gen.fn = "openMultipartUpload" /\ answered.open = 1 /\ err.kind # "OpenRequestError"
        /\ err.kind # "NotAnArray") =>
        LET data == gen.data
            \* the positive integer a partNumber denotes, 0 when it denotes none
            denoted(pn) ==
                CASE pn.type = "number" /\ pn.integer /\ pn.v > 0 -> pn.v
                  [] pn.type = "string" /\ pn.text = << "1" >> -> 1
                  [] pn.type = "string" /\ pn.text \in {<< "2" >>, << "2", ".", "0" >>, << "0", "2" >>} -> 2
                  [] OTHER -> 0
            good(item) == denoted(item.partNumber) > 0 /\ item.url.type = "string"
        IN  IF \E i \in 1..Len(data) : ~good(data[i])
            THEN /\ err.kind = "InvalidItem"
                 /\ urls = << >>
                 /\ requests = [ create |-> 1, open |-> 1, put |-> 0, complete |-> 0, abort |-> 1 ]
                 /\ pc \in {"aborting", "done"}
                 /\ settled => outcome = "rejected"
            ELSE /\ err.kind # "InvalidItem"
                 /\ Len(urls) = Len(data)
                 /\ \A i \in 1..Len(urls) : urls[i].partNumber \in 1..3 /\ urls[i].url \in 1..3
                 /\ \A i \in 1..(Len(urls) - 1) : urls[i].partNumber <= urls[i + 1].partNumber
                 /\ \A k \in 1..3 :
                      Cardinality({ i \in 1..Len(urls) : urls[i].partNumber = k })
                          = Cardinality({ i \in 1..Len(data) : denoted(data[i].partNumber) = k })

\* The backend answered with partNumber "2" before partNumber 1: the items
\* were coerced and sorted and the upload completed.
C32_Witness ==
    /\ gen.fn = "openMultipartUpload"
    /\ Len(gen.data) = 2
    /\ gen.data[1].partNumber = JsString(<< "2" >>, 0)
    /\ gen.data[2].partNumber = JsNumber(1, TRUE)
    /\ urls = << PartUrl(1), PartUrl(2) >>
    /\ settled
    /\ outcome = "result"

\* C33: for every non-empty source and every valid desired part size,
\* splitMultipartUpload returns a part count numParts with 1 <= numParts <=
\* 10000, the least count whose parts of partSize bytes cover the file, and
\* partSize, the size of every part but the last, is at least 5 MiB.
C33_PartCountInRange ==
    (gen.fn = "normalizePartSize" /\ gen.at = "returned" /\ gen.split # "none"
        /\ (gen.size.q > 0 \/ gen.size.r > 0)) =>
        LET m == gen.value
            \* n * m as digits of base 10000, for n <= 10000
            times(n) ==
                LET low == n * (m % 10000)
                IN  FileSize(n * (m \div 10000) + low \div 10000, low % 10000)
            \* x >= file.size
            covers(x) == x.q > gen.size.q \/ (x.q = gen.size.q /\ x.r >= gen.size.r)
        IN  /\ gen.split = "returned"
            /\ gen.numParts \in 1..10000
            /\ m >= 5 * 1024 * 1024
            /\ covers(times(gen.numParts))
            /\ ~covers(times(gen.numParts - 1))

\* A file of 10000 * 5 MiB + 1 bytes: the part size is raised to 5 MiB + 1
\* and the file is split into exactly 10000 parts.
C33_Witness ==
    /\ gen.fn = "normalizePartSize"
    /\ gen.split = "returned"
    /\ gen.size = FileSize(S3_MIN_PART_SIZE, 1)
    /\ gen.value = S3_MIN_PART_SIZE + 1
    /\ gen.numParts = S3_MAX_PARTS

\* C34: completion and abort are terminal and mutually exclusive on success:
\* once the completion request was answered with the result, the invocation
\* is settled with that result, no abort request was or will be issued and no
\* request of any kind follows; and once the abort request is issued no open,
\* PUT or complete request is issued any more.
C34_CompleteOrAbort ==
    /\ [](outcome = "result" =>
            /\ settled
            /\ requests.complete = 1 /\ answered.complete = 1
            /\ requests.abort = 0)
    /\ [][ /\ outcome = "result" => (requests' = requests /\ outcome' = outcome)
           /\ requests.abort >= 1 =>
                /\ requests.open' = requests.open
                /\ requests.put' = requests.put
                /\ requests.complete' = requests.complete
                /\ requests.abort' = 1 ]_vars

\* The completion request of a two-part upload was answered with the result:
\* no abort request was issued.
C34_Witness ==
    /\ settled
    /\ outcome = "result"
    /\ numParts = 2
    /\ answered = [ create |-> 1, open |-> 1, put |-> 2, complete |-> 1, abort |-> 0 ]
    /\ requests.abort = 0

\* C35: when the signal is already raised at the moment openMultipartUpload
\* is about to make the part-URL request, neither that request nor a PUT is
\* sent: a CanceledError is thrown, the abort request is issued and the
\* CanceledError reaches the caller.
C35_PreAbortedOpen ==
    (cancelledAt = "created" /\ pc # "created" /\ numParts >= 1) =>
        /\ requests.open = 0
        /\ requests.put = 0
        /\ requests.complete = 0
        /\ err.kind = "CanceledError"
        /\ requests.abort = 1
        /\ settled => (outcome = "rejected" /\ thrown.kind = "CanceledError")

\* C39: ensureQuoted is idempotent, and for every tag its result is a string
\* of at least 2 characters that starts with a double quote and ends with a
\* double quote.
C39_EnsureQuoted ==
    (gen.fn = "getMultipartUploadXML" /\ gen.at = "returned") =>
        \A i \in 1..Len(gen.quoted) :
            LET q == gen.quoted[i]
            IN  /\ ensureQuoted(q) = q
                /\ Len(q) >= 2
                /\ q[1] = QUOTE
                /\ q[Len(q)] = QUOTE

\* C36: once handleCancelUpload has removed an item that the running
\* onUploadFile loop has not started yet, no multipart upload is ever started
\* for that item.
C36_RemovedNeverStarted ==
    gen.fn = "FileUpload" => gen.lateStart = { }

\* C37: for each item at most one multiPartUpload invocation is in flight at
\* any time, and while one is in flight item.controller is the
\* AbortController whose signal that invocation uses, also when onUploadFile
\* is triggered again before an earlier run has finished.
C37_OneUploadPerItem ==
    gen.fn = "FileUpload" =>
        \A id \in DOMAIN gen.item :
            LET inFlight == { r \in 1..Len(gen.runs) :
                                gen.runs[r].pos > 0
                                /\ gen.runs[r].list[gen.runs[r].pos] = id }
            IN  /\ Cardinality(inFlight) <= 1
                /\ \A r \in inFlight : gen.item[id].controller = gen.runs[r].ctl

\* C38: onUploadFile skips an item as uploaded only if an earlier upload of
\* that item completed successfully; an item whose upload failed, was
\* cancelled or was never attempted is not skipped.
C38_SkipsOnlyUploaded ==
    gen.fn = "FileUpload" => gen.skipped = { }

=============================================================================
